---- MODULE Spec2Model ----
(***************************************************************************)
(* Model of src/server.py: the lifecycle of the HTTPS static file server.  *)
(*                                                                         *)
(* The process is one thread of control (main) whose position is pc, plus  *)
(* the asynchronous delivery of SIGINT / SIGTERM, which runs               *)
(* signal_handler between two statements of the main thread and raises     *)
(* SystemExit(0) there.  SystemExit is a BaseException: the                *)
(* "except Exception" clauses of setup_server and start do not catch it,   *)
(* the "finally" clause of start does run for it.                          *)
(*                                                                         *)
(* The "except KeyboardInterrupt" clause of start (lines 78-79) is not an  *)
(* action: main replaces the default SIGINT handler (line 128) before      *)
(* anything else runs, so KeyboardInterrupt is never raised.               *)
(***************************************************************************)
EXTENDS Integers, Sequences, FiniteSets, TLC

VARIABLES
    pc,            \* position of the main thread
    argv,          \* the command line
    env,           \* the environment variables PORT, CERT_FILE, KEY_FILE
    fs,            \* the paths that exist in the file system
    config,        \* the dict parse_arguments returns
    httpd,         \* self.httpd
    context,       \* the ssl.SSLContext of setup_server
    exc,           \* the exception the running except clause has caught
    pending_exit,  \* status of the SystemExit propagating through "finally"
    exit_status,   \* status the process ended with (-1 while it runs)
    log,           \* the records written through logger
    connections,   \* connections taken from the listening socket so far
    serviced,      \* the connections whose request was handed to the handler
    failed,        \* connections dropped by a failed TLS handshake so far
    last_conn      \* outcome of the latest connection

vars == <<pc, argv, env, fs, config, httpd, context, exc, pending_exit,
          exit_status, log, connections, serviced, failed, last_conn>>

-----------------------------------------------------------------------------
(* Bounds and input domains *)

MaxConnections == 2

Unset == "<unset>"

PortArgs == {Unset, "0", "-1", "8443", "65536", "abc"}

PortEnvs == {Unset, "8080", "abc"}

CertArgs == {Unset, "arg-cert.pem"}

CertEnvs == {Unset, "env-cert.pem"}

KeyArgs == {Unset, "arg-key.pem"}

KeyEnvs == {Unset}

Paths == {"./minecraft.pem", "arg-cert.pem", "env-cert.pem",
          "./minecraft-key.pem", "arg-key.pem"}

Signals == {"SIGINT", "SIGTERM"}

TLSVersions == {10, 11, 12, 13}

EphemeralPorts == {32768, 60999}

-----------------------------------------------------------------------------
(* Program constants *)

DefaultHost == "0.0.0.0"

DefaultPort == 443

DefaultCert == "./minecraft.pem"

DefaultKey == "./minecraft-key.pem"

TLSv1_2 == 12

-----------------------------------------------------------------------------
(* Values *)

NoServer == [made |-> FALSE, port |-> 0, socket |-> "none", closed |-> FALSE]

NoContext == [made |-> FALSE, minimum_version |-> 0, cert_loaded |-> FALSE]

NoException == [detail |-> "", arg |-> ""]

NoConfig == [host |-> "", port |-> 0, cert_file |-> "", key_file |-> ""]

NoConn == [outcome |-> "none", tls |-> FALSE, version |-> 0]

Record(level, msg, detail, arg) ==
    [level |-> level, msg |-> msg, detail |-> detail, arg |-> arg]

Logged(level, msg, detail, arg) == Append(log, Record(level, msg, detail, arg))

\* int(s) of Python on the strings of the input domains.
IsIntLiteral(s) == s \in {"0", "-1", "443", "8080", "8443", "65536"}

IntOf(s) ==
    CASE s = "0" -> 0
      [] s = "-1" -> -1
      [] s = "443" -> 443
      [] s = "8080" -> 8080
      [] s = "8443" -> 8443
      [] s = "65536" -> 65536

-----------------------------------------------------------------------------
Init ==
    /\ pc = "main"
    /\ argv \in [help : BOOLEAN, debug : BOOLEAN, port : PortArgs,
                cert : CertArgs, key : KeyArgs]
    /\ env \in [PORT : PortEnvs, CERT_FILE : CertEnvs, KEY_FILE : KeyEnvs]
    /\ fs \in SUBSET Paths
    /\ config = NoConfig
    /\ httpd = NoServer
    /\ context = NoContext
    /\ exc = NoException
    /\ pending_exit = -1
    /\ exit_status = -1
    /\ log = << >>
    /\ connections = 0
    /\ serviced = {}
    /\ failed = 0
    /\ last_conn = NoConn

\* The process ends with the given status.
Exit(status) ==
    /\ pc' = "exited"
    /\ exit_status' = status
    /\ pending_exit' = -1

\* main, lines 128-129: signal.signal(SIGINT / SIGTERM, signal_handler).
main_install_handlers ==
    /\ pc = "main"
    /\ pc' = "parse"
    /\ UNCHANGED <<argv, env, fs, config, httpd, context, exc, pending_exit,
                   exit_status, log, connections, serviced, failed, last_conn>>

-----------------------------------------------------------------------------
(* parse_arguments, lines 95-116, and the construction of line 135 *)

\* Line 99: int(os.environ.get('PORT', 443)).
PortDefaultRaises == env.PORT # Unset /\ ~IsIntLiteral(env.PORT)

PortDefault == IF env.PORT = Unset THEN DefaultPort ELSE IntOf(env.PORT)

\* Line 100.
CertDefault == IF env.CERT_FILE = Unset THEN DefaultCert ELSE env.CERT_FILE

\* Line 101.
KeyDefault == IF env.KEY_FILE = Unset THEN DefaultKey ELSE env.KEY_FILE

\* Line 104: type=int rejects the value given to --port.
PortArgRejected == argv.port # Unset /\ ~IsIntLiteral(argv.port)

\* Lines 111-116.
ParsedConfig ==
    [host      |-> DefaultHost,
     port      |-> IF argv.port = Unset THEN PortDefault ELSE IntOf(argv.port),
     cert_file |-> IF argv.cert = Unset THEN CertDefault ELSE argv.cert,
     key_file  |-> IF argv.key = Unset THEN KeyDefault ELSE argv.key]

\* The status parser.parse_args() exits with, for a command line it does not
\* return from: 0 after printing the help, 2 after a usage error.  With both
\* --help and a rejected --port the first one on the command line decides.
ParseArgsExits ==
    {0 : x \in {1 : y \in {1} \ {IF argv.help THEN 0 ELSE 1}}}
        \cup {2 : x \in {1 : y \in {1} \ {IF PortArgRejected THEN 0 ELSE 1}}}

parse_arguments ==
    /\ pc = "parse"
    /\ IF PortDefaultRaises
         THEN \* ValueError leaves main uncaught: traceback, status 1
              /\ Exit(1)
              /\ UNCHANGED <<config, log>>
         ELSE IF ParseArgsExits # {}
                THEN /\ \E status \in ParseArgsExits : Exit(status)
                     /\ UNCHANGED <<config, log>>
                ELSE /\ config' = ParsedConfig
                     /\ log' = IF argv.debug
                                 THEN Logged("DEBUG", "Debug mode enabled", "", "")
                                 ELSE log
                     /\ pc' = "setup_chdir"
                     /\ UNCHANGED <<exit_status, pending_exit>>
    /\ UNCHANGED <<argv, env, fs, httpd, context, exc, connections, serviced,
                   failed, last_conn>>

-----------------------------------------------------------------------------
(* MinecraftHTTPSServer.setup_server, lines 32-71 *)

\* Raising e inside the try block of setup_server: control is in line 69.
SetupRaise(detail, arg) ==
    /\ exc' = [detail |-> detail, arg |-> arg]
    /\ pc' = "setup_except"

\* Lines 36-38.
setup_chdir ==
    /\ pc = "setup_chdir"
    /\ log' = Logged("INFO", "Serving files from", "", "")
    /\ pc' = "setup_bind"
    /\ UNCHANGED <<argv, env, fs, config, httpd, context, exc, pending_exit,
                   exit_status, connections, serviced, failed, last_conn>>

\* BindAccepts with the upper limit off by one.
BindAcceptsOffByOne(port) == port \in 0..65536

\* socket.bind takes a port in 0..65535 and raises OverflowError otherwise.
BindAccepts(port) == port \in 0..65535

\* The port the socket listens on: port 0 asks the system for a free one.
BoundPorts(port) == IF port = 0 THEN EphemeralPorts ELSE {port}

\* Lines 41-44: HTTPServer((host, port), SimpleHTTPRequestHandler) binds and
\* listens.  When the constructor raises, self.httpd keeps the value None.
setup_bind ==
    /\ pc = "setup_bind"
    /\ \/ /\ ~BindAccepts(config.port)
          /\ SetupRaise("bind(): port must be 0-65535", "")
          /\ UNCHANGED httpd
       \/ /\ BindAccepts(config.port)
          /\ SetupRaise("Address already in use or permission denied", "")
          /\ UNCHANGED httpd
       \/ /\ BindAccepts(config.port)
          /\ \E p \in BoundPorts(config.port) :
                httpd' = [made |-> TRUE, port |-> p, socket |-> "plain",
                          closed |-> FALSE]
          /\ pc' = "setup_context"
          /\ UNCHANGED exc
    /\ UNCHANGED <<argv, env, fs, config, context, pending_exit, exit_status,
                   log, connections, serviced, failed, last_conn>>

\* Line 48: the floor of ssl.create_default_context depends on the Python
\* release: TLS 1.0 (only SSLv2/SSLv3 switched off) or TLS 1.2.
setup_context ==
    /\ pc = "setup_context"
    /\ \E floor \in {10, 12} :
          context' = [made |-> TRUE, minimum_version |-> floor,
                      cert_loaded |-> FALSE]
    /\ pc' = "setup_check_cert"
    /\ UNCHANGED <<argv, env, fs, config, httpd, exc, pending_exit,
                   exit_status, log, connections, serviced, failed, last_conn>>

\* Lines 51-52.
setup_check_cert ==
    /\ pc = "setup_check_cert"
    /\ IF config.cert_file \notin fs
         THEN SetupRaise("Certificate file not found", config.cert_file)
         ELSE /\ pc' = "setup_check_key"
              /\ UNCHANGED exc
    /\ UNCHANGED <<argv, env, fs, config, httpd, context, pending_exit,
                   exit_status, log, connections, serviced, failed, last_conn>>

\* Lines 53-54.
setup_check_key ==
    /\ pc = "setup_check_key"
    /\ IF config.key_file \notin fs
         THEN SetupRaise("Key file not found", config.key_file)
         ELSE /\ pc' = "setup_load"
              /\ UNCHANGED exc
    /\ UNCHANGED <<argv, env, fs, config, httpd, context, pending_exit,
                   exit_status, log, connections, serviced, failed, last_conn>>

\* Lines 56-59: load_cert_chain raises ssl.SSLError on files that are not a
\* matching certificate / key pair.
setup_load_cert_chain ==
    /\ pc = "setup_load"
    /\ \/ /\ SetupRaise("load_cert_chain failed", "")
          /\ UNCHANGED context
       \/ /\ context' = [context EXCEPT !.cert_loaded = TRUE]
          /\ pc' = "setup_minimum_version"
          /\ UNCHANGED exc
    /\ UNCHANGED <<argv, env, fs, config, httpd, pending_exit, exit_status,
                   log, connections, serviced, failed, last_conn>>

\* setup_minimum_version without the assignment of line 62.
setup_minimum_version_skipped ==
    /\ pc = "setup_minimum_version"
    /\ pc' = "setup_wrap"
    /\ UNCHANGED <<argv, env, fs, config, httpd, context, exc, pending_exit,
                   exit_status, log, connections, serviced, failed, last_conn>>

\* Line 62.
setup_minimum_version ==
    /\ pc = "setup_minimum_version"
    /\ context' = [context EXCEPT !.minimum_version = TLSv1_2]
    /\ pc' = "setup_wrap"
    /\ UNCHANGED <<argv, env, fs, config, httpd, exc, pending_exit,
                   exit_status, log, connections, serviced, failed, last_conn>>

\* Line 67; setup_server returns to main, line 137.
setup_wrap_socket ==
    /\ pc = "setup_wrap"
    /\ httpd' = [httpd EXCEPT !.socket = "tls"]
    /\ pc' = "start_call"
    /\ UNCHANGED <<argv, env, fs, config, context, exc, pending_exit,
                   exit_status, log, connections, serviced, failed, last_conn>>

\* setup_except without the sys.exit(1) of line 71: setup_server returns.
setup_except_returns ==
    /\ pc = "setup_except"
    /\ log' = Logged("ERROR", "Failed to set up server", exc.detail, exc.arg)
    /\ pc' = "start_call"
    /\ UNCHANGED <<argv, env, fs, config, httpd, context, exc, pending_exit,
                   exit_status, connections, serviced, failed, last_conn>>

\* Lines 69-71.
setup_except ==
    /\ pc = "setup_except"
    /\ log' = Logged("ERROR", "Failed to set up server", exc.detail, exc.arg)
    /\ Exit(1)
    /\ UNCHANGED <<argv, env, fs, config, httpd, context, exc, connections,
                   serviced, failed, last_conn>>

-----------------------------------------------------------------------------
(* MinecraftHTTPSServer.start, lines 73-86 *)

\* main line 137 calls start; line 75 enters the try block.
start_call ==
    /\ pc = "start_call"
    /\ pc' = "start_try"
    /\ UNCHANGED <<argv, env, fs, config, httpd, context, exc, pending_exit,
                   exit_status, log, connections, serviced, failed, last_conn>>

\* Lines 76-77: the log record, then serve_forever is entered.  On
\* self.httpd = None line 77 raises AttributeError.
start_serve_forever ==
    /\ pc = "start_try"
    /\ log' = Logged("INFO", "Starting HTTPS server", "", "")
    /\ IF httpd.made
         THEN /\ pc' = "serving"
              /\ UNCHANGED exc
         ELSE /\ pc' = "start_except"
              /\ exc' = [detail |-> "AttributeError", arg |-> ""]
    /\ UNCHANGED <<argv, env, fs, config, httpd, context, pending_exit,
                   exit_status, connections, serviced, failed, last_conn>>

\* The handshake of an accepted connection on the wrapped listening socket:
\* it fails when the client offers nothing at or above the floor of the
\* context, or for a fault of its own (fault).
HandshakeOk(client_max, fault) ==
    client_max >= context.minimum_version /\ ~fault

\* handshake_failed with the SSLError leaving serve_forever.
handshake_failed_raises(client_max) ==
    /\ last_conn' = [outcome |-> "handshake_failed", tls |-> TRUE,
                     version |-> client_max]
    /\ failed' = failed + 1
    /\ exc' = [detail |-> "SSLError", arg |-> ""]
    /\ pc' = "start_except"
    /\ UNCHANGED serviced

\* accept on the wrapped socket raised ssl.SSLError, an OSError: the loop of
\* serve_forever drops the connection and takes its next turn.
handshake_failed(client_max) ==
    /\ last_conn' = [outcome |-> "handshake_failed", tls |-> TRUE,
                     version |-> client_max]
    /\ failed' = failed + 1
    /\ UNCHANGED <<pc, exc, serviced>>

\* The request of an accepted connection is handed to
\* SimpleHTTPRequestHandler; tls tells whether the connection is encrypted.
request_serviced(tls, version) ==
    /\ last_conn' = [outcome |-> "serviced", tls |-> tls, version |-> version]
    /\ serviced' = serviced \cup {[tls |-> tls, version |-> version]}
    /\ UNCHANGED <<pc, exc, failed>>

\* Line 77, one turn of the loop of serve_forever: accept (with the TLS
\* handshake when the listening socket is wrapped), then the handler.
serve_connection ==
    /\ pc = "serving"
    /\ connections < MaxConnections
    /\ connections' = connections + 1
    /\ \E client_max \in TLSVersions, fault \in BOOLEAN :
          IF httpd.socket = "tls"
            THEN IF HandshakeOk(client_max, fault)
                   THEN request_serviced(TRUE, client_max)
                   ELSE handshake_failed(client_max)
            ELSE request_serviced(FALSE, 0)
    /\ UNCHANGED <<argv, env, fs, config, httpd, context, pending_exit,
                   exit_status, log>>

\* serve_error answered by setting the server up again.
serve_error_rebinds ==
    /\ pc = "serving"
    /\ exc' = [detail |-> "serve_forever failed", arg |-> ""]
    /\ pc' = "setup_bind"
    /\ UNCHANGED <<argv, env, fs, config, httpd, context, pending_exit,
                   exit_status, log, connections, serviced, failed, last_conn>>

\* Line 77 raises an Exception out of serve_forever (the selector fails).
serve_error ==
    /\ pc = "serving"
    /\ exc' = [detail |-> "serve_forever failed", arg |-> ""]
    /\ pc' = "start_except"
    /\ UNCHANGED <<argv, env, fs, config, httpd, context, pending_exit,
                   exit_status, log, connections, serviced, failed, last_conn>>

\* start_except without the sys.exit(1) of line 82: start returns.
start_except_swallows ==
    /\ pc = "start_except"
    /\ log' = Logged("ERROR", "Server error", exc.detail, exc.arg)
    /\ pending_exit' = -1
    /\ pc' = "start_finally"
    /\ UNCHANGED <<argv, env, fs, config, httpd, context, exc, exit_status,
                   connections, serviced, failed, last_conn>>

\* Lines 80-82: sys.exit(1) raises SystemExit(1) inside the try statement.
start_except ==
    /\ pc = "start_except"
    /\ log' = Logged("ERROR", "Server error", exc.detail, exc.arg)
    /\ pending_exit' = 1
    /\ pc' = "start_finally"
    /\ UNCHANGED <<argv, env, fs, config, httpd, context, exc, exit_status,
                   connections, serviced, failed, last_conn>>

\* Lines 83-86, then the pending SystemExit ends the process.
start_finally ==
    /\ pc = "start_finally"
    /\ IF httpd.made
         THEN /\ httpd' = [httpd EXCEPT !.closed = TRUE]
              /\ log' = Logged("INFO", "Server closed", "", "")
         ELSE UNCHANGED <<httpd, log>>
    /\ Exit(IF pending_exit = -1 THEN 0 ELSE pending_exit)
    /\ UNCHANGED <<argv, env, fs, config, context, exc, connections, serviced,
                   failed, last_conn>>

-----------------------------------------------------------------------------
(* signal_handler, lines 119-122 *)

\* The positions inside the try statement of start, lines 75-82.
InStartTry == pc \in {"start_try", "serving", "start_except"}

\* Delivery of sig once main has installed the handlers: sys.exit(0) raises
\* SystemExit(0) at the current position of the main thread.  Inside the try
\* statement of start the finally clause runs next; anywhere else, the
\* finally clause itself included, the exception leaves main at once.
signal_handler(sig) ==
    /\ pc \notin {"main", "exited"}
    /\ log' = Logged("INFO", "Received signal", "shutting down", sig)
    /\ IF InStartTry
         THEN /\ pc' = "start_finally"
              /\ pending_exit' = 0
              /\ UNCHANGED exit_status
         ELSE Exit(0)
    /\ UNCHANGED <<argv, env, fs, config, httpd, context, exc, connections,
                   serviced, failed, last_conn>>

-----------------------------------------------------------------------------
Next ==
    \/ main_install_handlers
    \/ parse_arguments
    \/ setup_chdir
    \/ setup_bind
    \/ setup_context
    \/ setup_check_cert
    \/ setup_check_key
    \/ setup_load_cert_chain
    \/ setup_minimum_version
    \/ setup_wrap_socket
    \/ setup_except
    \/ start_call
    \/ start_serve_forever
    \/ serve_connection
    \/ serve_error
    \/ start_except
    \/ start_finally
    \/ \E sig \in Signals : signal_handler(sig)

Spec == Init /\ [][Next]_vars

-----------------------------------------------------------------------------
(* Derived notions *)

HasLog(msg) == \E i \in DOMAIN log : log[i].msg = msg

\* signal_handler has run.
Signalled == HasLog("Received signal")

\* An ERROR record was written.
ErrorLogged == \E i \in DOMAIN log : log[i].level = "ERROR"

\* An ERROR record names the path.
ErrorNames(path) ==
    \E i \in DOMAIN log : log[i].level = "ERROR" /\ log[i].arg = path

\* parse_arguments has returned the configuration.
Configured == config # NoConfig

\* Control is inside start().
InStart == pc \in {"start_try", "serving", "start_except", "start_finally"}

\* The lifecycle state of the server object: UNINITIALIZED until the
\* HTTPServer is constructed, BOUND from then on through setup_server,
\* SERVING while start() runs, STOPPED once the process has ended.
Lifecycle ==
    IF pc = "exited" THEN "STOPPED"
    ELSE IF InStart THEN "SERVING"
    ELSE IF httpd.made THEN "BOUND"
    ELSE "UNINITIALIZED"

Rank(state) ==
    CASE state = "UNINITIALIZED" -> 0
      [] state = "BOUND" -> 1
      [] state = "SERVING" -> 2
      [] state = "STOPPED" -> 3

-----------------------------------------------------------------------------
(* The claims *)

\* C1: once the handlers are installed, a process that received SIGINT or
\* SIGTERM ends with status 0, and a listening socket that was bound has
\* been closed by server_close before the exit.
C1_SignalExitsZeroSocketClosed ==
    (pc = "exited" /\ Signalled) =>
        (exit_status = 0 /\ (httpd.made => httpd.closed))

\* C2: (host, port) is never bound while the configured certificate file or
\* key file is missing: the missing-file exit comes before the bind.
C2_NoBindWithMissingFile ==
    (Configured /\ (config.cert_file \notin fs \/ config.key_file \notin fs))
        => ~httpd.made

\* C3: with a missing cert_file start() is never entered, and the process
\* (left alone by signals) ends with status 1 after an error record that
\* names the missing certificate path.
C3_MissingCertExitsOneNamingPath ==
    (Configured /\ config.cert_file \notin fs) =>
        /\ ~InStart
        /\ ~HasLog("Starting HTTPS server")
        /\ (pc = "exited" /\ ~Signalled) =>
              (exit_status = 1 /\ ErrorNames(config.cert_file))

\* C4: with a missing key_file (the certificate file being there) start()
\* is never entered, and the process (left alone by signals) ends with
\* status 1 after an error record that names the missing key path.
C4_MissingKeyExitsOneNamingPath ==
    (Configured /\ config.cert_file \in fs /\ config.key_file \notin fs) =>
        /\ ~InStart
        /\ ~HasLog("Starting HTTPS server")
        /\ (pc = "exited" /\ ~Signalled) =>
              (exit_status = 1 /\ ErrorNames(config.key_file))

\* C5 as stated: the process ends with status 0 or 1 and with no other.
C5_ExitStatusZeroOrOne ==
    pc = "exited" => exit_status \in {0, 1}

\* C5 amended: the process ends with status 0, 1 or 2.  A signal always
\* gives 0, and 0 otherwise comes only from --help; 2 comes only from a
\* rejected command line, before any configuration exists; a fatal error of
\* configuration (PORT not an integer), of setup (a bind failure included)
\* or of the serve loop gives 1 unless a signal follows it, and 1 comes
\* from nothing else.
C5_ExitStatuses ==
    pc = "exited" =>
        /\ exit_status \in {0, 1, 2}
        /\ Signalled => exit_status = 0
        /\ exit_status = 0 => (Signalled \/ (argv.help /\ ~Configured))
        /\ exit_status = 2 => (PortArgRejected /\ ~Configured /\ log = << >>)
        /\ (~Signalled /\ (ErrorLogged \/ PortDefaultRaises)) => exit_status = 1
        /\ exit_status = 1 => (ErrorLogged \/ PortDefaultRaises)

C5_Witness ==
    /\ pc = "exited"
    /\ exit_status = 1
    /\ ~httpd.made
    /\ log # << >>
    /\ log[Len(log)].detail = "Address already in use or permission denied"

\* C6: a step in which the TLS handshake of an incoming connection fails
\* leaves the process serving, the listening socket open and unchanged, no
\* exception raised into start() and no exit begun.
C6_HandshakeFailureIsLocal ==
    [][(failed' = failed + 1) =>
          /\ pc = "serving" /\ pc' = "serving"
          /\ httpd' = httpd /\ ~httpd'.closed
          /\ exc' = exc
          /\ pending_exit' = pending_exit /\ exit_status' = exit_status
          /\ log' = log]_vars

\* A connection was serviced after an earlier one failed its handshake.
C6_Witness ==
    /\ pc = "serving"
    /\ failed = 1
    /\ connections = 2
    /\ last_conn.outcome = "serviced"

\* C7: every serviced connection was negotiated over TLS at 1.2 or higher;
\* the floor is on the context whenever the socket is wrapped and whenever
\* start() runs; a client offering less than the floor is never serviced.
C7_MinimumVersionFloor ==
    /\ \A c \in serviced : c.tls /\ c.version >= TLSv1_2
    /\ httpd.socket = "tls" => context.minimum_version = TLSv1_2
    /\ InStart => context.minimum_version = TLSv1_2
    /\ (last_conn.outcome # "none" /\ last_conn.version < TLSv1_2)
          => last_conn.outcome = "handshake_failed"

\* A client below the floor was rejected, another connection was serviced.
C7_Witness ==
    /\ last_conn.outcome = "handshake_failed"
    /\ last_conn.version < TLSv1_2
    /\ serviced # {}

\* C8: the lifecycle state only moves forward through UNINITIALIZED, BOUND,
\* SERVING, STOPPED, never back to an earlier state, and no step leaves
\* STOPPED.
C8_LifecycleLinear ==
    [][/\ Rank(Lifecycle') >= Rank(Lifecycle)
       /\ Lifecycle # "STOPPED"]_vars

\* The process went through BOUND and SERVING and has stopped.
C8_Witness ==
    /\ Lifecycle = "STOPPED"
    /\ httpd.made
    /\ HasLog("Starting HTTPS server")
    /\ connections > 0

\* C9 as stated: the server is never bound with a configured port outside
\* 1..65535.
C9_ConfiguredPortInRange ==
    httpd.made => config.port \in 1..65535

\* C9 amended: the port the socket is bound to is always in 1..65535; a
\* configured port that is negative or above 65535 never reaches the bound
\* state; the configured port 0 does, bound to a port of the system's choice.
C9_BoundPortInRange ==
    httpd.made =>
        /\ httpd.port \in 1..65535
        /\ config.port \in 0..65535
        /\ config.port # 0 => httpd.port = config.port

C9_Witness ==
    /\ pc = "serving"
    /\ config.port = 0
    /\ httpd.port \in 1..65535

\* C10: start() runs, and a request is serviced, only with the certificate
\* chain loaded and the listening socket replaced by its TLS wrapper; after
\* a failed setup step the process has ended and start() was never called.
C10_ServeOnlyOverTLS ==
    /\ (InStart \/ pc = "start_call") =>
          (context.cert_loaded /\ httpd.made /\ httpd.socket = "tls")
    /\ \A c \in serviced : c.tls
    /\ HasLog("Failed to set up server") =>
          (pc = "exited" /\ ~HasLog("Starting HTTPS server") /\ serviced = {})

C10_Witness ==
    /\ pc = "serving"
    /\ httpd.socket = "tls"
    /\ context.cert_loaded
    /\ last_conn.outcome = "serviced"

====
